---- MODULE Spec2Model ----
(***************************************************************************)
(* The three ROOT macros GetEntries.C, GetEntriesAndEventNr.C and          *)
(* GetNumbers.C: each ignores all signals, opens a file, looks up the      *)
(* TTree "T", reads its entry count and the event number of the first and  *)
(* the last entry, and prints a report (to the console or to numbers.txt). *)
(*                                                                         *)
(* One run of one macro is a sequence of steps (pc); `file` is the input   *)
(* the run is started on and `trace` records, in program order, every call *)
(* into the framework and every line written.                              *)
(*                                                                         *)
(* Long64_t values are pairs [hi, lo] standing for hi * 2^32 + lo with lo  *)
(* in the range of a 32-bit int, so that the conversion of a Long64_t to   *)
(* int keeps its real width (it drops hi).                                 *)
(***************************************************************************)
EXTENDS Integers, Sequences, FiniteSets

\* ------------------------------------------------------------------ bounds
\* number of signals the loop walks over (kMAXSIGNALS of the framework)
kMAXSIGNALS == 3
\* largest high word of a table's entry count
MaxHi == 1
\* largest small entry count / low word enumerated
MaxSmall == 3
\* identifiers stored in rows are 101 .. 101 + MaxIdOffset
MaxIdOffset == 1
\* number of times the macro is run on the same file
MaxRuns == 2

\* ------------------------------------------------------ 32 / 64 bit values
\* largest value of 'int nEntries'
IntMax == 2147483647
IntMin == -IntMax - 1

Long(h, l) == [hi |-> h, lo |-> l]
\* int -> Long64_t / long (sign extension, value preserving)
IntToLong(n) == Long(0, n)
\* Long64_t -> int: 'nEntries = T->GetEntries()' keeps the low 32 bits
ToInt(v) == v.lo
LongLess(a, b) == a.hi < b.hi \/ (a.hi = b.hi /\ a.lo < b.lo)
\* 64-bit 'x - 1' as in T->GetEntries()-1
LongSubOne(v) == IF v.lo = IntMin THEN Long(v.hi - 1, IntMax) ELSE Long(v.hi, v.lo - 1)
\* 32-bit 'nEntries - 1' passed as a Long64_t argument; for nEntries == INT_MIN
\* the subtraction overflows (undefined): the build either wraps in 32 bits
\* or subtracts after widening
IntSubOne(n) ==
  IF n > IntMin THEN {IntToLong(n - 1)}
  ELSE {Long(0, IntMax), Long(-1, IntMax)}

Zero == Long(0, 0)
MinusOne == IntToLong(-1)
MinusTwo == IntToLong(-2)

\* ------------------------------------------------------------- input files
IdVals == {101 + k : k \in 0..MaxIdOffset}
\* what an identifier buffer holds before any entry was loaded into it
UninitVals == {0, 101 + MaxIdOffset + 1}

LoVals == (0..MaxSmall) \cup {IntMin, -1, IntMax}
\* entry counts a TTree can report: 0 .. 2^32 * MaxHi + IntMax
RowCounts == {v \in {Long(h, l) : h \in 0..MaxHi, l \in LoVals} : v.hi > 0 \/ v.lo >= 0}

One == Long(0, 1)

FileRec(o, t, n, b, a, m, c) ==
  [opens |-> o, hasT |-> t, N |-> n, hasId |-> b, idFirst |-> a, idMid |-> m, idLast |-> c]

\* a file that cannot be opened
NoFile == FileRec(FALSE, FALSE, Zero, FALSE, 0, 0, 0)
\* a file without an object named "T"
NoTable == FileRec(TRUE, FALSE, Zero, FALSE, 0, 0, 0)
\* files with a table of N rows, with or without the identifier; the
\* identifier of row 0 is idFirst, of row N-1 idLast, of rows between idMid
TableFiles ==
  {FileRec(TRUE, TRUE, n, FALSE, 0, 0, 0) : n \in RowCounts}
  \cup {FileRec(TRUE, TRUE, Zero, TRUE, 0, 0, 0)}
  \cup {FileRec(TRUE, TRUE, One, TRUE, a, a, a) : a \in IdVals}
  \cup {FileRec(TRUE, TRUE, n, TRUE, a, 101 + MaxIdOffset + 2, c) :
          n \in RowCounts \ {Zero, One}, a \in IdVals, c \in IdVals}
Files == {NoFile, NoTable} \cup TableFiles

Variants == {"GetEntries", "GetEntriesAndEventNr", "GetNumbers"}
Console == {"GetEntries", "GetEntriesAndEventNr"}

\* -------------------------------------------------------- table behaviour
\* 0 <= idx < N
InRange(idx, n) == ~LongLess(idx, Zero) /\ LongLess(idx, n)
RowValue(fl, idx) ==
  IF idx = Zero THEN fl.idFirst
  ELSE IF idx = LongSubOne(fl.N) THEN fl.idLast
  ELSE fl.idMid
\* T->GetEntry(idx): loads row idx into the bound buffers; an index outside
\* the table loads nothing
GetEntry(fl, idx, b) == IF InRange(idx, fl.N) THEN RowValue(fl, idx) ELSE b

VARIABLES variant, offline, file, run, prev, pc, i, ignored, f, T, nEntries,
          l, sync, buf, firstEvent, lastEvent, sink, trace

vars == <<variant, offline, file, run, prev, pc, i, ignored, f, T, nEntries,
          l, sync, buf, firstEvent, lastEvent, sink, trace>>

\* ------------------------------------------------------------------ trace
Ev(op, via, n, id) == [op |-> op, via |-> via, n |-> n, id |-> id]
Call(op, via) == Ev(op, via, Zero, 0)
Line(op, n) == Ev(op, sink, n, 0)
IdLine(op, id) == Ev(op, sink, Zero, id)

LineOps == {"Getting events for", "Number of Entries", "First event number",
            "Last event number", "nEntries", "T is null, dummy values",
            "dummyEntries", "dummyFirst", "dummyLast"}
IsLine(e) == e.op \in LineOps
Output == SelectSeq(trace, IsLine)
Final == pc \in {"done", "crashed"}
Outcome == [status |-> pc, lines |-> Output]

\* ------------------------------------------------------------------- Init
FirstPc(v) == IF v = "GetEntriesAndEventNr" THEN "load" ELSE "loop"

Fresh ==
  /\ pc = FirstPc(variant)
  /\ i = 0
  /\ ignored = {}
  /\ f = "unset"
  /\ T = "unset"
  /\ nEntries = 0
  /\ l = "unset"
  /\ sync = "unset"
  /\ buf = 0
  /\ firstEvent = 0
  /\ lastEvent = 0
  /\ sink = "console"
  /\ trace = <<>>

Init ==
  /\ variant \in Variants
  /\ offline \in IF variant = "GetEntriesAndEventNr" THEN {TRUE} ELSE BOOLEAN
  /\ file \in Files
  /\ run = 1
  /\ prev = [status |-> "none", lines |-> <<>>]
  /\ Fresh

\* ------------------------------------------------------------ common steps
\* GetEntriesAndEventNr loads its libraries before the signal loop
LoadLibraries ==
  /\ pc = "load"
  /\ trace' = trace \o <<Call("Load", "libFROG.so"), Call("Load", "libg4dst.so")>>
  /\ pc' = "loop"
  /\ UNCHANGED <<variant, offline, file, run, prev, i, ignored, f, T, nEntries,
                 l, sync, buf, firstEvent, lastEvent, sink>>

LoopCondMut(k) == k < kMAXSIGNALS - 1
\* for (int i = 0; i < kMAXSIGNALS; i++)
LoopCond(k) == k < kMAXSIGNALS

IgnoreSignal ==
  /\ pc = "loop"
  /\ LoopCond(i)
  /\ ignored' = ignored \cup {i}
  /\ trace' = Append(trace, Ev("IgnoreSignal", "gSystem", Zero, i))
  /\ i' = i + 1
  /\ UNCHANGED <<variant, offline, file, run, prev, pc, f, T, nEntries,
                 l, sync, buf, firstEvent, lastEvent, sink>>

LoadsAtOpen ==
  IF offline /\ variant # "GetEntriesAndEventNr"
  THEN <<Call("Load", "libFROG.so"), Call("Load", "libg4dst.so")>>
  ELSE <<>>

\* TFile::Open returns a null pointer for a file that cannot be opened
OpenFile ==
  /\ pc = "loop"
  /\ ~LoopCond(i)
  /\ f' = IF file.opens THEN "open" ELSE "null"
  /\ trace' = trace \o LoadsAtOpen \o <<Call("Open", IF offline THEN "FROG" ELSE "path")>>
  /\ pc' = IF variant = "GetNumbers" THEN "redirect" ELSE "announce"
  /\ UNCHANGED <<variant, offline, file, run, prev, i, ignored, T, nEntries,
                 l, sync, buf, firstEvent, lastEvent, sink>>

Announce ==
  /\ pc = "announce"
  /\ trace' = Append(trace, Line("Getting events for", Zero))
  /\ pc' = "lookup"
  /\ UNCHANGED <<variant, offline, file, run, prev, i, ignored, f, T, nEntries,
                 l, sync, buf, firstEvent, lastEvent, sink>>

RedirectOutput ==
  /\ pc = "redirect"
  /\ sink' = "numbers.txt"
  /\ trace' = Append(trace, Call("RedirectOutput", "numbers.txt"))
  /\ pc' = "lookup"
  /\ UNCHANGED <<variant, offline, file, run, prev, i, ignored, f, T, nEntries,
                 l, sync, buf, firstEvent, lastEvent>>

AfterLookup(v) == IF v = "GetEntries" THEN "geCount"
                  ELSE IF v = "GetNumbers" THEN "gnCount" ELSE "enCount"

\* TTree *T = (TTree *) f->Get("T") on an open file
LookupTable ==
  /\ pc = "lookup"
  /\ f = "open"
  /\ T' = IF file.hasT THEN "tree" ELSE "null"
  /\ trace' = Append(trace, Call("Get", f))
  /\ pc' = AfterLookup(variant)
  /\ UNCHANGED <<variant, offline, file, run, prev, i, ignored, f, nEntries,
                 l, sync, buf, firstEvent, lastEvent, sink>>

\* f->Get("T") through the null pointer of a failed open: undefined; the run
\* is aborted by the fault, or goes on with no table
LookupTableNullFile ==
  /\ pc = "lookup"
  /\ f = "null"
  /\ trace' = Append(trace, Call("Get", f))
  /\ \/ pc' = "crashed" /\ T' = T
     \/ pc' = AfterLookup(variant) /\ T' = "null"
  /\ UNCHANGED <<variant, offline, file, run, prev, i, ignored, f, nEntries,
                 l, sync, buf, firstEvent, lastEvent, sink>>

PrintFirst ==
  /\ pc = "printFirst"
  /\ trace' = Append(trace, IdLine("First event number", firstEvent))
  /\ pc' = "printLast"
  /\ UNCHANGED <<variant, offline, file, run, prev, i, ignored, f, T, nEntries,
                 l, sync, buf, firstEvent, lastEvent, sink>>

PrintLast ==
  /\ pc = "printLast"
  /\ trace' = Append(trace, IdLine("Last event number", lastEvent))
  /\ pc' = "done"
  /\ UNCHANGED <<variant, offline, file, run, prev, i, ignored, f, T, nEntries,
                 l, sync, buf, firstEvent, lastEvent, sink>>

\* -------------------------------------------------------------- GetEntries
\* int nEntries = -1; if (T) nEntries = T->GetEntries(); cout << ...
GE_Count ==
  /\ pc = "geCount"
  /\ nEntries' = IF T # "null" THEN ToInt(file.N) ELSE -1
  /\ trace' = trace
              \o (IF T # "null" THEN <<Call("GetEntries", T)>> ELSE <<>>)
              \o <<Line("Number of Entries", IntToLong(nEntries'))>>
  /\ pc' = "geLeaf"
  /\ UNCHANGED <<variant, offline, file, run, prev, i, ignored, f, T,
                 l, sync, buf, firstEvent, lastEvent, sink>>

\* firstEvent = lastEvent = -1; auto l = T->GetLeaf("eventnumber"); if (l)
GE_GetLeaf ==
  /\ pc = "geLeaf"
  /\ T # "null"
  /\ firstEvent' = -1
  /\ lastEvent' = -1
  /\ l' = IF file.hasId THEN "leaf" ELSE "null"
  /\ buf' \in IF file.hasId THEN UninitVals ELSE {buf}
  /\ trace' = Append(trace, Call("GetLeaf", T))
  /\ pc' = IF l' = "leaf" THEN "geFirst" ELSE "printFirst"
  /\ UNCHANGED <<variant, offline, file, run, prev, i, ignored, f, T, nEntries,
                 sync, sink>>

\* T->GetLeaf("eventnumber") with T == nullptr: undefined; the run is aborted
\* by the fault, or goes on without a leaf
GE_GetLeafNullTable ==
  /\ pc = "geLeaf"
  /\ T = "null"
  /\ firstEvent' = -1
  /\ lastEvent' = -1
  /\ trace' = Append(trace, Call("GetLeaf", T))
  /\ \/ pc' = "crashed" /\ l' = l
     \/ pc' = "printFirst" /\ l' = "null"
  /\ UNCHANGED <<variant, offline, file, run, prev, i, ignored, f, T, nEntries,
                 sync, buf, sink>>

\* T->GetEntry(0); firstEvent = l->GetValueLong64();
GE_ReadFirst ==
  /\ pc = "geFirst"
  /\ buf' = GetEntry(file, Zero, buf)
  /\ firstEvent' = buf'
  /\ trace' = Append(trace, Ev("GetEntry", T, Zero, 0))
  /\ pc' = "geLast"
  /\ UNCHANGED <<variant, offline, file, run, prev, i, ignored, f, T, nEntries,
                 l, sync, lastEvent, sink>>

\* T->GetEntry(nEntries - 1); lastEvent = l->GetValueLong64();
GE_ReadLast ==
  /\ pc = "geLast"
  /\ \E idx \in IntSubOne(nEntries) :
       /\ buf' = GetEntry(file, idx, buf)
       /\ trace' = Append(trace, Ev("GetEntry", T, idx, 0))
  /\ lastEvent' = buf'
  /\ pc' = "printFirst"
  /\ UNCHANGED <<variant, offline, file, run, prev, i, ignored, f, T, nEntries,
                 l, sync, firstEvent, sink>>

\* ---------------------------------------------------- GetEntriesAndEventNr
\* if (!T) cout << "Number of Entries: -2" else cout << ... << T->GetEntries()
EN_Count ==
  /\ pc = "enCount"
  /\ trace' = IF T = "null"
              THEN Append(trace, Line("Number of Entries", MinusTwo))
              ELSE trace \o <<Call("GetEntries", T), Line("Number of Entries", file.N)>>
  /\ pc' = "enBind"
  /\ UNCHANGED <<variant, offline, file, run, prev, i, ignored, f, T, nEntries,
                 l, sync, buf, firstEvent, lastEvent, sink>>

\* lastEvent = firstEvent = -1; if (T) { sync = nullptr;
\* T->SetBranchAddress("DST#Sync", &sync): binds (and allocates) the object
\* when the branch exists, leaves sync null otherwise
EN_Bind ==
  /\ pc = "enBind"
  /\ firstEvent' = -1
  /\ lastEvent' = -1
  /\ IF T # "null"
     THEN /\ sync' = IF file.hasId THEN "obj" ELSE "null"
          /\ buf' \in IF file.hasId THEN UninitVals ELSE {buf}
          /\ trace' = Append(trace, Call("SetBranchAddress", T))
          /\ pc' = "enFirst"
     ELSE /\ UNCHANGED <<sync, buf, trace>>
          /\ pc' = "printFirst"
  /\ UNCHANGED <<variant, offline, file, run, prev, i, ignored, f, T, nEntries,
                 l, sink>>

\* T->GetEntry(0); if (sync) firstEvent = sync->EventNumber();
EN_ReadFirst ==
  /\ pc = "enFirst"
  /\ buf' = GetEntry(file, Zero, buf)
  /\ firstEvent' = IF sync = "obj" THEN buf' ELSE firstEvent
  /\ trace' = Append(trace, Ev("GetEntry", T, Zero, 0))
  /\ pc' = "enLast"
  /\ UNCHANGED <<variant, offline, file, run, prev, i, ignored, f, T, nEntries,
                 l, sync, lastEvent, sink>>

\* T->GetEntry(T->GetEntries()-1); if (sync) lastEvent = sync->EventNumber();
EN_ReadLast ==
  /\ pc = "enLast"
  /\ buf' = GetEntry(file, LongSubOne(file.N), buf)
  /\ lastEvent' = IF sync = "obj" THEN buf' ELSE lastEvent
  /\ trace' = trace \o <<Call("GetEntries", T), Ev("GetEntry", T, LongSubOne(file.N), 0)>>
  /\ pc' = "printFirst"
  /\ UNCHANGED <<variant, offline, file, run, prev, i, ignored, f, T, nEntries,
                 l, sync, firstEvent, sink>>

\* -------------------------------------------------------------- GetNumbers
\* int nEntries = -1; if (T) { SetScanField(0); nEntries = T->GetEntries();
\* cout << "nEntries " << nEntries
GN_Count ==
  /\ pc = "gnCount"
  /\ IF T # "null"
     THEN /\ nEntries' = ToInt(file.N)
          /\ trace' = trace \o <<Call("SetScanField", T), Call("GetEntries", T),
                                 Line("nEntries", IntToLong(nEntries'))>>
          /\ pc' = "gnScanFirst"
     ELSE /\ nEntries' = -1
          /\ trace' = trace
          /\ pc' = "gnDummy"
  /\ UNCHANGED <<variant, offline, file, run, prev, i, ignored, f, T,
                 l, sync, buf, firstEvent, lastEvent, sink>>

\* T->Scan("eventnumber","","",1,0);
GN_ScanFirst ==
  /\ pc = "gnScanFirst"
  /\ trace' = Append(trace, Ev("Scan", T, Zero, 0))
  /\ pc' = "gnScanLast"
  /\ UNCHANGED <<variant, offline, file, run, prev, i, ignored, f, T, nEntries,
                 l, sync, buf, firstEvent, lastEvent, sink>>

\* T->Scan("eventnumber","","",1,nEntries-1); return;
GN_ScanLast ==
  /\ pc = "gnScanLast"
  /\ \E idx \in IntSubOne(nEntries) : trace' = Append(trace, Ev("Scan", T, idx, 0))
  /\ pc' = "done"
  /\ UNCHANGED <<variant, offline, file, run, prev, i, ignored, f, T, nEntries,
                 l, sync, buf, firstEvent, lastEvent, sink>>

\* the fallback: a banner and the three dummy lines
GN_Dummy ==
  /\ pc = "gnDummy"
  /\ trace' = trace \o <<Line("T is null, dummy values", Zero),
                         Line("dummyEntries", IntToLong(nEntries)),
                         Line("dummyFirst", MinusOne),
                         Line("dummyLast", MinusOne)>>
  /\ pc' = "done"
  /\ UNCHANGED <<variant, offline, file, run, prev, i, ignored, f, T, nEntries,
                 l, sync, buf, firstEvent, lastEvent, sink>>

\* ------------------------------------------------------------- second run
\* the same macro is started again, as a new process, on the same file
Rerun ==
  /\ Final
  /\ run < MaxRuns
  /\ run' = run + 1
  /\ prev' = Outcome
  /\ pc' = FirstPc(variant)
  /\ i' = 0
  /\ ignored' = {}
  /\ f' = "unset"
  /\ T' = "unset"
  /\ nEntries' = 0
  /\ l' = "unset"
  /\ sync' = "unset"
  /\ buf' = 0
  /\ firstEvent' = 0
  /\ lastEvent' = 0
  /\ sink' = "console"
  /\ trace' = <<>>
  /\ UNCHANGED <<variant, offline, file>>

Next ==
  \/ LoadLibraries
  \/ IgnoreSignal
  \/ OpenFile
  \/ Announce
  \/ RedirectOutput
  \/ LookupTable
  \/ LookupTableNullFile
  \/ GE_Count
  \/ GE_GetLeaf
  \/ GE_GetLeafNullTable
  \/ GE_ReadFirst
  \/ GE_ReadLast
  \/ EN_Count
  \/ EN_Bind
  \/ EN_ReadFirst
  \/ EN_ReadLast
  \/ GN_Count
  \/ GN_ScanFirst
  \/ GN_ScanLast
  \/ GN_Dummy
  \/ PrintFirst
  \/ PrintLast
  \/ Rerun

Spec == Init /\ [][Next]_vars

\* ----------------------------------------------------------------- report
ConsoleOps == <<"Getting events for", "Number of Entries",
                "First event number", "Last event number">>
OutOps == [k \in 1..Len(Output) |-> Output[k].op]
\* the console report is complete and reads count c, first a, last b
ReportIs(c, a, b) ==
  /\ OutOps = ConsoleOps
  /\ Output[2].n = c
  /\ Output[3].id = a
  /\ Output[4].id = b
AllSignals == 0..(kMAXSIGNALS - 1)
RowOps == {"GetEntry", "Scan"}
TableOps == {"GetEntries", "GetLeaf", "SetBranchAddress", "SetScanField", "GetEntry", "Scan"}
ResultOps == LineOps \ {"Getting events for"}
NonEmpty(fl) == LongLess(Zero, fl.N)

\* C1: a console run on a file that opens and has a table "T" with N > 0
\* rows and a readable identifier reports count = N, first = identifier of
\* row 0 and last = identifier of row N-1.
C1_Report ==
  (pc = "done" /\ variant \in Console /\ file.opens /\ file.hasT
     /\ NonEmpty(file) /\ file.hasId)
  => ReportIs(file.N, file.idFirst, file.idLast)

\* C1 for the tables whose row count fits 'int nEntries' (N <= 2^31 - 1)
C1_ReportWithinInt ==
  (pc = "done" /\ variant \in Console /\ file.opens /\ file.hasT
     /\ NonEmpty(file) /\ file.hasId /\ file.N.hi = 0)
  => ReportIs(file.N, file.idFirst, file.idLast)

\* C2: on a file that opens but has no "T", a console run completes with the
\* report count = -1 (GetEntries) or -2 (GetEntriesAndEventNr), first = -1,
\* last = -1, it never crashes and never calls through the absent table.
C2_MissingTable ==
  (variant \in Console /\ file.opens /\ ~file.hasT)
  => /\ pc # "crashed"
     /\ \A k \in 1..Len(trace) : trace[k].op \in TableOps => trace[k].via # "null"
     /\ pc = "done" =>
          ReportIs(IF variant = "GetEntries" THEN MinusOne ELSE MinusTwo, -1, -1)

\* C3: on a table "T" with 0 rows no variant requests row -1, and the console
\* report is count = 0, first = -1, last = -1.
C3_EmptyTable ==
  (file.opens /\ file.hasT /\ file.N = Zero)
  => /\ \A k \in 1..Len(trace) : trace[k].op \in RowOps => trace[k].n # MinusOne
     /\ (pc = "done" /\ variant \in Console) => ReportIs(Zero, -1, -1)

\* C4: on a table "T" with N rows that lacks the identifier, a console run
\* reports count = N, first = -1, last = -1.
C4_MissingIdentifier ==
  (pc = "done" /\ variant \in Console /\ file.opens /\ file.hasT /\ ~file.hasId)
  => ReportIs(file.N, -1, -1)

\* C4 for the tables whose row count fits 'int nEntries' (N <= 2^31 - 1)
C4_MissingIdentifierWithinInt ==
  (pc = "done" /\ variant \in Console /\ file.opens /\ file.hasT /\ ~file.hasId
     /\ file.N.hi = 0)
  => ReportIs(file.N, -1, -1)

\* C5: when the file cannot be opened, no table lookup is made through the
\* failed handle and no result line is written.
C5_OpenError ==
  ~file.opens
  => /\ \A k \in 1..Len(trace) : trace[k].op # "Get"
     /\ \A k \in 1..Len(Output) : Output[k].op \notin ResultOps

\* C6: a console run on a file that opens writes exactly the four lines
\* 'Getting events for', 'Number of Entries', 'First event number', 'Last
\* event number', once each and in this order, whatever the file holds, and
\* the count line precedes every row read.
C6_FourLines ==
  (variant \in Console /\ file.opens)
  => /\ Len(Output) <= 4
     /\ OutOps = SubSeq(ConsoleOps, 1, Len(Output))
     /\ Final => OutOps = ConsoleOps
     /\ \A k \in 1..Len(trace) : trace[k].op = "GetEntry" =>
          \E j \in 1..(k - 1) : trace[j].op = "Number of Entries"

\* the scans GetNumbers has made, in order
IsScan(e) == e.op = "Scan"
Scans == SelectSeq(trace, IsScan)

\* C7: GetNumbers redirects to numbers.txt before any line is written, and a
\* run on a file that opens ends with exactly one of two forms: with "T",
\* the line 'nEntries <n>' and then the scans of row 0 and of row n-1, no
\* dummy line; without "T", the lines 'dummyEntries -1', 'dummyFirst -1',
\* 'dummyLast -1' in this order and no scan.
C7_TwoForms ==
  (variant = "GetNumbers" /\ file.opens)
  => /\ \A k \in 1..Len(Output) : Output[k].via = "numbers.txt"
     /\ Final =>
          IF file.hasT
          THEN /\ OutOps = <<"nEntries">>
               /\ Len(Scans) = 2
               /\ Scans[1].n = Zero
               /\ Scans[2].n = LongSubOne(Output[1].n)
          ELSE /\ OutOps = <<"dummyEntries", "dummyFirst", "dummyLast">>
               /\ \A k \in 1..Len(Output) : Output[k].n = MinusOne
               /\ Scans = <<>>

\* C7 as the code has it, for the tables whose row count fits 'int
\* nEntries': the fallback writes its banner line before the dummy lines
C7_TwoFormsWithBanner ==
  (variant = "GetNumbers" /\ file.opens /\ file.N.hi = 0)
  => /\ \A k \in 1..Len(Output) : Output[k].via = "numbers.txt"
     /\ Final =>
          IF file.hasT
          THEN /\ OutOps = <<"nEntries">>
               /\ Len(Scans) = 2
               /\ Scans[1].n = Zero
               /\ Scans[2].n = LongSubOne(Output[1].n)
          ELSE /\ OutOps = <<"T is null, dummy values",
                             "dummyEntries", "dummyFirst", "dummyLast">>
               /\ \A k \in 2..Len(Output) : Output[k].n = MinusOne
               /\ Scans = <<>>

DefinedRun ==
  /\ file.opens
  /\ variant = "GetEntries" => file.hasT
  /\ (file.hasT /\ file.hasId) => NonEmpty(file)
  /\ variant # "GetEntriesAndEventNr" => ToInt(file.N) # IntMin
C8_IdempotentWhereDefined == (run > 1 /\ Final /\ DefinedRun) => Outcome = prev

\* C9: whenever "T" exists, the count GetEntries and GetNumbers print is the
\* table's 64-bit row count, and it is never negative.
C9_CountExact ==
  (variant \in {"GetEntries", "GetNumbers"} /\ T = "tree")
  => \A k \in 1..Len(trace) :
       trace[k].op \in {"Number of Entries", "nEntries"} =>
         (trace[k].n = file.N /\ ~LongLess(trace[k].n, Zero))

\* C10: every file open, table call, row read and written line comes after
\* the loop has ignored every signal 0 .. kMAXSIGNALS-1.
C10_SignalsFirst ==
  /\ f # "unset" => ignored = AllSignals
  /\ \A k \in 1..Len(trace) :
       trace[k].op \notin {"IgnoreSignal", "Load"} =>
         \A s \in AllSignals :
           \E j \in 1..(k - 1) : trace[j].op = "IgnoreSignal" /\ trace[j].id = s

\* a run that opened its file, read rows and finished its report
C10_Witness ==
  /\ pc = "done"
  /\ f = "open"
  /\ \E k \in 1..Len(trace) : trace[k].op = "GetEntry"
  /\ \E k \in 1..Len(trace) : trace[k].op = "Last event number"

====
